---- MODULE Spec2Model ----
(***************************************************************************)
(* A model of profiler.h, the single-header instrumenting profiler:        *)
(* the registry profiler_nodes, the nesting cursor                         *)
(* profiler_current_parent, the calibration value                          *)
(* profiler_cycles_measure, the PROFILER_START / PROFILER_STOP macros and  *)
(* the recursive report writer.                                            *)
(***************************************************************************)
EXTENDS Integers, Sequences, FiniteSets, TLC

(***************************************************************************)
(* Bounds.  The registry capacity and the width of the cycle counter are   *)
(* scaled down; the code is the same for every capacity and width.         *)
(***************************************************************************)
\* number of slots of profiler_nodes (256 in the source)
PROFILER_NODES_MAX == 3
\* width in bits of uint64_t in the model (64 in the source)
CycleBits == 31
\* calls of the API made in one run (a PROFILER_STOP is not counted: it
\* closes a block an earlier, counted, PROFILER_START opened)
MaxCalls == 3

\* the largest uint64_t, 2^CycleBits - 1
UINT64_MAX == (2 ^ (CycleBits - 1) - 1) * 2 + 1

\* the cycles that pass between two reads of the counter: one, or half the
\* counter's range (two of which wrap a sum)
Ticks == {1, 2 ^ (CycleBits - 1)}

\* identities handed out by __COUNTER__, one per PROFILER_START call site
Sites == 0 .. (PROFILER_NODES_MAX - 1)
Ids == 0 .. (PROFILER_NODES_MAX - 1)

\* the NAME argument written at each call site: call sites 0 and 2 are two
\* different blocks (in different scopes) that use the same name
SiteNames == <<"A", "B">>
SiteName(s) == SiteNames[(s % Len(SiteNames)) + 1]

VARIABLES
    profiler_nodes,            \* [Ids -> [name, parent_id, total_cycles]]
    profiler_current_parent,   \* -1 or an identity
    profiler_cycles_measure,   \* cycles counted by profiler_initialize
    buffer,                    \* the lines last written by a dump
    tsc,                       \* the hardware cycle counter
    frames,                    \* the open blocks, innermost last: the block's identity, its
                               \* local __profiler_start_NAME, and (history) the cycles
                               \* that really elapsed since that local was set
    first_parent,              \* history: per identity, the parent its first PROFILER_START
                               \* since the last reset recorded (NotStarted before it)
    pairs,                     \* history: per identity, the number of Start/Stop pairs
                               \* completed since the last reset
    elapsed,                   \* history: per identity, the cycles that elapsed in its
                               \* pairs completed since the last reset (as a uint64_t)
    torn,                      \* history: a reset was made while a block was open
    reentered,                 \* history: a block was started while it was already open
    lastcall,                  \* history: the call made last
    calls,                     \* history: the number of calls made
    crossed,                   \* history: a block was closed while a block opened after it
                               \* was still open, or was left without a PROFILER_STOP
    ms_clock,                  \* the millisecond clock get_milliseconds reads
    calib                      \* the _profiler_initialize in progress: where it is, its
                               \* locals milliseconds and cycles_start, and (history) the
                               \* milliseconds that really passed since it read the clock
                               \* (counted up to the clock's range)

vars == <<profiler_nodes, profiler_current_parent, profiler_cycles_measure,
          buffer, tsc, frames, first_parent, pairs, elapsed, torn, reentered, lastcall, calls,
          crossed, ms_clock, calib>>

\* what only the steps of a _profiler_initialize in progress and the
\* out-of-order calls change
aside == <<crossed, ms_clock, calib>>

\* uint64_t arithmetic: a + b and a - b modulo 2^CycleBits
AddU64(a, b) == IF a <= UINT64_MAX - b THEN a + b ELSE a - (UINT64_MAX - b) - 1
SubU64(a, b) == IF a >= b THEN a - b ELSE (UINT64_MAX - b) + a + 1

\* strncpy(dst, src, size) seen on the C strings: size > strlen(src) copies
\* src with its terminator, otherwise size bytes of src replace the head of dst
profiler_strncpy(dst, src, size) ==
    IF size > Len(src) THEN src
    ELSE SubSeq(src, 1, size) \o SubSeq(dst, size + 1, Len(dst))

\* rdtsc: the counter is free running and wraps
get_cycles(d) == AddU64(tsc, d)

\* first_parent of an identity not started since the last reset
NotStarted == 0 - 2

EmptyNode == [name |-> "", parent_id |-> -1, total_cycles |-> 0]

\* no _profiler_initialize is in progress
NotCalibrating == [pc |-> "idle", milliseconds |-> 0, cycles_start |-> 0, waited |-> 0, polled |-> FALSE]

\* a _profiler_reset whose loop stops one slot short
ResetNodesButLast(nodes) ==
    [i \in Ids |-> IF i < PROFILER_NODES_MAX - 1
                   THEN [name |-> profiler_strncpy(nodes[i].name, "", 1),
                         parent_id |-> 0 - 1,
                         total_cycles |-> 0]
                   ELSE nodes[i]]

\* the loop of _profiler_reset over every slot
ResetNodes(nodes) ==
    [i \in Ids |-> [name |-> profiler_strncpy(nodes[i].name, "", 1),
                    parent_id |-> -1,
                    total_cycles |-> 0]]

Init ==
    /\ profiler_nodes = [i \in Ids |-> EmptyNode]
    /\ profiler_current_parent = -1
    /\ profiler_cycles_measure = 0
    /\ buffer = [header |-> <<>>, rows |-> <<>>]
    /\ tsc \in {0, UINT64_MAX}
    /\ frames = <<>>
    /\ first_parent = [i \in Ids |-> NotStarted]
    /\ pairs = [i \in Ids |-> 0]
    /\ elapsed = [i \in Ids |-> 0]
    /\ torn = FALSE
    /\ reentered = FALSE
    /\ lastcall = "none"
    /\ calls = 0
    /\ crossed = FALSE
    /\ ms_clock = 0
    /\ calib = NotCalibrating

\* a PROFILER_START that records the parent on the first registration only
StartNodesKeepParent(nodes, s, parent) ==
    [nodes EXCEPT ![s] = [name |-> profiler_strncpy(@.name, SiteName(s), Len(SiteName(s)) + 1),
                          parent_id |-> IF @.name = "" THEN parent ELSE @.parent_id,
                          total_cycles |-> @.total_cycles]]

\* the thread that runs the blocks of call site s, when two threads use the
\* profiler on disjoint sets of call sites
ThreadOf(s) == s % 2

\* a PROFILER_START with a cursor of its thread's own: a cursor left by the
\* other thread is not recorded
StartNodesOwnThread(nodes, s, parent) ==
    [nodes EXCEPT ![s] = [name |-> profiler_strncpy(@.name, SiteName(s), Len(SiteName(s)) + 1),
                          parent_id |-> IF parent # 0 - 1 /\ ThreadOf(parent) # ThreadOf(s)
                                        THEN 0 - 1 ELSE parent,
                          total_cycles |-> @.total_cycles]]

\* the registry after the three stores of PROFILER_START at call site s
StartNodes(nodes, s, parent) ==
    [nodes EXCEPT ![s] = [name |-> profiler_strncpy(@.name, SiteName(s), Len(SiteName(s)) + 1),
                          parent_id |-> parent,
                          total_cycles |-> @.total_cycles]]

\* a PROFILER_STOP that stores the last pair's cycles instead of adding them
StopNodesOverwrite(nodes, id, start, now) ==
    [nodes EXCEPT ![id].total_cycles = SubU64(now, start)]

\* the registry after the += of PROFILER_STOP
StopNodes(nodes, id, start, now) ==
    [nodes EXCEPT ![id].total_cycles = AddU64(@, SubU64(now, start))]

\* d cycles pass: every open block has run d cycles longer
Tick(fs, d) == [k \in 1 .. Len(fs) |-> [fs[k] EXCEPT !.ran = AddU64(@, d)]]

PROFILER_START(s, d) ==
    /\ calls < MaxCalls
    /\ calls' = calls + 1
    /\ profiler_nodes' = StartNodes(profiler_nodes, s, profiler_current_parent)
    /\ profiler_current_parent' = s
    /\ tsc' = get_cycles(d)
    /\ frames' = Append(Tick(frames, d), [id |-> s, start |-> tsc', ran |-> 0])
    /\ first_parent' = IF first_parent[s] = NotStarted
                       THEN [first_parent EXCEPT ![s] = profiler_nodes'[s].parent_id]
                       ELSE first_parent
    /\ reentered' = (reentered \/ \E k \in 1 .. Len(frames) : frames[k].id = s)
    /\ lastcall' = "start"
    /\ UNCHANGED <<profiler_cycles_measure, buffer, pairs, elapsed, torn, aside>>

\* the matching stop of the innermost open block
PROFILER_STOP(d) ==
    /\ frames # <<>>
    /\ LET f == frames[Len(frames)] IN
        /\ tsc' = get_cycles(d)
        /\ profiler_nodes' = StopNodes(profiler_nodes, f.id, f.start, tsc')
        /\ profiler_current_parent' = profiler_nodes'[f.id].parent_id
        /\ pairs' = [pairs EXCEPT ![f.id] = @ + 1]
        /\ elapsed' = [elapsed EXCEPT ![f.id] = AddU64(@, AddU64(f.ran, d))]
    /\ frames' = Tick(SubSeq(frames, 1, Len(frames) - 1), d)
    /\ lastcall' = "stop"
    /\ UNCHANGED <<profiler_cycles_measure, buffer, first_parent, torn, reentered, calls, aside>>

profiler_reset ==
    /\ calls < MaxCalls
    /\ calls' = calls + 1
    /\ profiler_nodes' = ResetNodes(profiler_nodes)
    /\ first_parent' = [i \in Ids |-> NotStarted]
    /\ pairs' = [i \in Ids |-> 0]
    /\ elapsed' = [i \in Ids |-> 0]
    /\ torn' = (torn \/ frames # <<>>)
    /\ lastcall' = "reset"
    /\ UNCHANGED <<profiler_current_parent, profiler_cycles_measure, buffer, tsc, frames, reentered, aside>>

\* _profiler_initialize: the reset, then the busy wait, during which the
\* counter advances by d cycles
profiler_initialize(d) ==
    /\ calls < MaxCalls
    /\ calls' = calls + 1
    /\ profiler_nodes' = ResetNodes(profiler_nodes)
    /\ tsc' = get_cycles(d)
    /\ profiler_cycles_measure' = SubU64(tsc', tsc)
    /\ frames' = Tick(frames, d)
    /\ first_parent' = [i \in Ids |-> NotStarted]
    /\ pairs' = [i \in Ids |-> 0]
    /\ elapsed' = [i \in Ids |-> 0]
    /\ torn' = (torn \/ frames # <<>>)
    /\ lastcall' = "initialize"
    /\ UNCHANGED <<profiler_current_parent, buffer, reentered, aside>>

(***************************************************************************)
(* float arithmetic (IEEE-754 binary32, round to nearest even) on the      *)
(* non-negative values the report computes.  A finite value is m * 2^e     *)
(* with 2^23 <= m < 2^24, or m = 0.                                        *)
(***************************************************************************)
FloatZero == [k |-> "num", m |-> 0, e |-> 0]
FloatInf == [k |-> "inf", m |-> 0, e |-> 0]
FloatNaN == [k |-> "nan", m |-> 0, e |-> 0]

RECURSIVE NormUp(_, _)
NormUp(m, e) ==
    IF m >= 2 ^ 23 THEN [k |-> "num", m |-> m, e |-> e] ELSE NormUp(2 * m, e - 1)

RECURSIVE BitLen(_)
BitLen(v) == IF v = 0 THEN 0 ELSE 1 + BitLen(v \div 2)

\* q, the quotient by a number whose half is `half`, with remainder r:
\* rounded to nearest, ties to even, and renormalised
RoundEven(q, r2, den, e) ==
    LET up == r2 > den \/ (r2 = den /\ q % 2 = 1)
        q1 == IF up THEN q + 1 ELSE q
    IN  IF q1 = 2 ^ 24 THEN [k |-> "num", m |-> 2 ^ 23, e |-> e + 1]
        ELSE [k |-> "num", m |-> q1, e |-> e]

\* the conversion (float)v of an unsigned integer
ToFloat(v) ==
    IF v = 0 THEN FloatZero
    ELSE IF v < 2 ^ 24 THEN NormUp(v, 0)
    ELSE LET sh == BitLen(v) - 24
         IN  RoundEven(v \div (2 ^ sh), 2 * (v % (2 ^ sh)), 2 ^ sh, sh)

\* n more bits of the quotient of r by b, by long division
RECURSIVE DivBits(_, _, _, _)
DivBits(r, b, q, n) ==
    IF n = 0 THEN [q |-> q, r |-> r]
    ELSE IF 2 * r >= b THEN DivBits(2 * r - b, b, 2 * q + 1, n - 1)
    ELSE DivBits(2 * r, b, 2 * q, n - 1)

\* the float quotient a / b
FloatDiv(a, b) ==
    IF b.k = "num" /\ b.m = 0
    THEN (IF a.k = "num" /\ a.m = 0 THEN FloatNaN ELSE FloatInf)
    ELSE IF a.m = 0 THEN FloatZero
    ELSE LET n == IF a.m >= b.m THEN 23 ELSE 24
             d == DivBits(a.m % b.m, b.m, a.m \div b.m, n)
         IN  RoundEven(d.q, 2 * d.r, b.m, a.e - b.e - n)

PROFILER_MEASURE_MILLISECONDS == 100
PROFILER_MEASURE_SECONDS == FloatDiv(ToFloat(PROFILER_MEASURE_MILLISECONDS), ToFloat(1000))

\* the seconds with the window taken in milliseconds: the cycles per
\* millisecond in the place of the cycles per second
SecondsPerMillisecond(total_cycles, cycles_measure) ==
    FloatDiv(ToFloat(total_cycles),
             FloatDiv(ToFloat(cycles_measure), ToFloat(PROFILER_MEASURE_MILLISECONDS)))

\* float seconds = (float)total_cycles / ((float)profiler_cycles_measure / PROFILER_MEASURE_SECONDS)
Seconds(total_cycles, cycles_measure) ==
    FloatDiv(ToFloat(total_cycles), FloatDiv(ToFloat(cycles_measure), PROFILER_MEASURE_SECONDS))

\* num / 2^sh rounded to nearest, ties to even, for num < 2^31 and sh >= 0
ShiftRound(num, sh) ==
    IF sh = 0 THEN num
    ELSE IF sh > 31 THEN 0
    ELSE LET den == 2 ^ (sh - 1)
             q == (num \div den) \div 2
             r == num - q * den * 2
         IN  IF r > den \/ (r = den /\ q % 2 = 1) THEN q + 1 ELSE q

\* round(f * 10^6 / 2^sh) for 0 <= f < 2^24 and f < 2^sh: the six digits
\* after the point (10^6 = 2^6 * 15625; the product is kept in two limbs of
\* 12 bits so that no intermediate value needs more than 31 bits)
Micros(f, sh) ==
    IF sh <= 6 THEN f * (1000000 \div (2 ^ sh))
    ELSE IF sh <= 17 THEN ShiftRound(f * 15625, sh - 6)
    ELSE LET hi0 == (f \div 4096) * 15625
             lo0 == (f % 4096) * 15625
             hi == hi0 + (lo0 \div 4096)
             lo == lo0 % 4096
             t == sh - 18
         IN  IF t >= 28 THEN 0
             ELSE LET q == hi \div (2 ^ t)
                      rh == hi % (2 ^ t)
                      \* remainder rh * 4096 + lo against half = 2^(t+11)
                      cmp == IF t = 0 THEN lo - 2048
                             ELSE IF rh # 2 ^ (t - 1) THEN rh - 2 ^ (t - 1)
                             ELSE lo
                  IN  IF cmp > 0 \/ (cmp = 0 /\ q % 2 = 1) THEN q + 1 ELSE q

RECURSIVE PadLeft0(_, _)
PadLeft0(str, w) == IF Len(str) >= w THEN str ELSE PadLeft0("0" \o str, w)

RECURSIVE PadRight(_, _)
PadRight(str, w) == IF Len(str) >= w THEN str ELSE PadRight(str \o " ", w)

\* printf("%f", x): the exact value of x with six digits after the point
FormatF(x) ==
    IF x.k = "inf" THEN "inf"
    ELSE IF x.k = "nan" THEN "nan"
    ELSE LET sh == 0 - x.e
             ip == IF sh <= 0 THEN x.m * (2 ^ x.e)
                   ELSE IF sh >= 24 THEN 0
                   ELSE x.m \div (2 ^ sh)
             f == IF sh <= 0 THEN 0
                  ELSE IF sh >= 24 THEN x.m
                  ELSE x.m % (2 ^ sh)
             us == IF sh <= 0 THEN 0 ELSE Micros(f, sh)
         IN  IF us = 1000000 THEN ToString(ip + 1) \o ".000000"
             ELSE ToString(ip) \o "." \o PadLeft0(ToString(us), 6)

(***************************************************************************)
(* The report.                                                             *)
(***************************************************************************)
\* an inner loop that also takes a child at the ceiling (<= for <)
RECURSIVE ScanMaxAtCeil(_, _, _, _, _, _)
ScanMaxAtCeil(nodes, parent_id, max_cycles_ceil, j, max_cycles, max_index) ==
    IF j >= PROFILER_NODES_MAX THEN [max_cycles |-> max_cycles, max_index |-> max_index]
    ELSE IF /\ nodes[j].parent_id = parent_id
            /\ nodes[j].total_cycles > max_cycles
            /\ nodes[j].total_cycles <= max_cycles_ceil
         THEN ScanMaxAtCeil(nodes, parent_id, max_cycles_ceil, j + 1, nodes[j].total_cycles, j)
         ELSE ScanMaxAtCeil(nodes, parent_id, max_cycles_ceil, j + 1, max_cycles, max_index)

\* an inner loop that takes no notice of the ceiling
RECURSIVE ScanMaxNoCeil(_, _, _, _, _, _)
ScanMaxNoCeil(nodes, parent_id, max_cycles_ceil, j, max_cycles, max_index) ==
    IF j >= PROFILER_NODES_MAX THEN [max_cycles |-> max_cycles, max_index |-> max_index]
    ELSE IF /\ nodes[j].parent_id = parent_id
            /\ nodes[j].total_cycles > max_cycles
         THEN ScanMaxNoCeil(nodes, parent_id, max_cycles_ceil, j + 1, nodes[j].total_cycles, j)
         ELSE ScanMaxNoCeil(nodes, parent_id, max_cycles_ceil, j + 1, max_cycles, max_index)

\* the inner loop of profiler_get_results_sorted from slot j on: the first
\* child of parent_id with the most cycles below the ceiling
RECURSIVE ScanMax(_, _, _, _, _, _)
ScanMax(nodes, parent_id, max_cycles_ceil, j, max_cycles, max_index) ==
    IF j >= PROFILER_NODES_MAX THEN [max_cycles |-> max_cycles, max_index |-> max_index]
    ELSE IF /\ nodes[j].parent_id = parent_id
            /\ nodes[j].total_cycles > max_cycles
            /\ nodes[j].total_cycles < max_cycles_ceil
         THEN ScanMax(nodes, parent_id, max_cycles_ceil, j + 1, nodes[j].total_cycles, j)
         ELSE ScanMax(nodes, parent_id, max_cycles_ceil, j + 1, max_cycles, max_index)

\* buffer_name: four spaces per level, then the name
RECURSIVE Indent(_)
Indent(level) == IF level <= 0 THEN "" ELSE "    " \o Indent(level - 1)

\* what the sprintf of one data row is given: the slot it is written for and
\* the level (kept beside the three printed fields)
Row(nodes, cycles_measure, max_index, level) ==
    [id |-> max_index,
     level |-> level,
     name |-> Indent(level) \o nodes[max_index].name,
     seconds |-> FormatF(Seconds(nodes[max_index].total_cycles, cycles_measure)),
     cycles |-> nodes[max_index].total_cycles]

\* "%-40s%f : %" PRIu64 "\n"
RowText(row) == PadRight(row.name, 40) \o row.seconds \o " : " \o ToString(row.cycles) \o "\n"

\* a report writer that writes a level's rows first and their children
\* after them
RECURSIVE SortedSiblingsFirst(_, _, _, _, _, _)
SortedSiblingsFirst(nodes, cycles_measure, parent_id, level, i, max_cycles_ceil) ==
    IF i >= PROFILER_NODES_MAX THEN <<>>
    ELSE LET found == ScanMax(nodes, parent_id, max_cycles_ceil, 0, 0, 0 - 1)
         IN  IF found.max_index # 0 - 1
             THEN <<Row(nodes, cycles_measure, found.max_index, level)>>
                  \o SortedSiblingsFirst(nodes, cycles_measure, parent_id, level, i + 1, found.max_cycles)
                  \o SortedSiblingsFirst(nodes, cycles_measure, found.max_index, level + 1, 0, UINT64_MAX)
             ELSE <<>>

\* the rows appended by profiler_get_results_sorted(buffer, parent_id, level)
\* from iteration i of its outer loop on
RECURSIVE SortedFrom(_, _, _, _, _, _)
SortedFrom(nodes, cycles_measure, parent_id, level, i, max_cycles_ceil) ==
    IF i >= PROFILER_NODES_MAX THEN <<>>
    ELSE LET found == ScanMax(nodes, parent_id, max_cycles_ceil, 0, 0, -1)
         IN  IF found.max_index # -1
             THEN <<Row(nodes, cycles_measure, found.max_index, level)>>
                  \o SortedFrom(nodes, cycles_measure, found.max_index, level + 1, 0, UINT64_MAX)
                  \o SortedFrom(nodes, cycles_measure, parent_id, level, i + 1, found.max_cycles)
             ELSE <<>>

profiler_get_results_sorted(nodes, cycles_measure, parent_id, level) ==
    SortedFrom(nodes, cycles_measure, parent_id, level, 0, UINT64_MAX)

\* the deepest level at which profiler_get_results_sorted(buffer, parent_id,
\* level) is entered from iteration i of its outer loop on, itself included;
\* more than PROFILER_NODES_MAX when the calls nest deeper than fuel
RECURSIVE SortedDepth(_, _, _, _, _, _)
SortedDepth(nodes, parent_id, level, i, max_cycles_ceil, fuel) ==
    IF fuel = 0 THEN PROFILER_NODES_MAX + 1
    ELSE IF i >= PROFILER_NODES_MAX THEN level
    ELSE LET found == ScanMax(nodes, parent_id, max_cycles_ceil, 0, 0, 0 - 1)
         IN  IF found.max_index # 0 - 1
             THEN LET below == SortedDepth(nodes, found.max_index, level + 1, 0, UINT64_MAX,
                                           fuel - 1)
                      after == SortedDepth(nodes, parent_id, level, i + 1, found.max_cycles,
                                           fuel)
                  IN  IF below >= after THEN below ELSE after
             ELSE level

HeaderLines ==
    << PadRight("Name", 40) \o "Seconds" \o "  : " \o "CPU Cycles" \o "\n",
       "-------------------------------------------------------------\n" >>

\* _profiler_get_results(buffer): the header, then the rows
profiler_get_results(nodes, cycles_measure) ==
    [header |-> HeaderLines,
     rows |-> profiler_get_results_sorted(nodes, cycles_measure, -1, 0)]

\* _profiler_dump_console (and, up to the output, _profiler_dump_file)
profiler_dump_console ==
    /\ calls < MaxCalls
    /\ calls' = calls + 1
    /\ buffer' = profiler_get_results(profiler_nodes, profiler_cycles_measure)
    /\ lastcall' = "dump"
    /\ UNCHANGED <<profiler_nodes, profiler_current_parent, profiler_cycles_measure,
                   tsc, frames, first_parent, pairs, elapsed, torn, reentered, aside>>

Next ==
    \/ \E s \in Sites, d \in Ticks : PROFILER_START(s, d)
    \/ \E d \in Ticks : PROFILER_STOP(d)
    \/ profiler_reset
    \/ \E d \in Ticks : profiler_initialize(d)
    \/ profiler_dump_console

Spec == Init /\ [][Next]_vars

(***************************************************************************)
(* Calls out of order.  PROFILER_STOP(NAME) names its block, so a program  *)
(* can close a block that is not the innermost open one, and can leave the *)
(* scope of a block without a PROFILER_STOP at all.                        *)
(***************************************************************************)
\* a PROFILER_STOP that always leaves the cursor at none
StopCursorNone(nodes, id) == 0 - 1

\* profiler_current_parent after PROFILER_STOP of the block with identity id
StopCursor(nodes, id) == nodes[id].parent_id

\* fs without its k-th element
Without(fs, k) == SubSeq(fs, 1, k - 1) \o SubSeq(fs, k + 1, Len(fs))

\* PROFILER_STOP of the k-th open block, innermost or not
PROFILER_STOP_AT(k, d) ==
    /\ k \in 1 .. Len(frames)
    /\ LET f == frames[k] IN
        /\ tsc' = get_cycles(d)
        /\ profiler_nodes' = StopNodes(profiler_nodes, f.id, f.start, tsc')
        /\ profiler_current_parent' = StopCursor(profiler_nodes', f.id)
        /\ pairs' = [pairs EXCEPT ![f.id] = @ + 1]
        /\ elapsed' = [elapsed EXCEPT ![f.id] = AddU64(@, AddU64(f.ran, d))]
    /\ frames' = Tick(Without(frames, k), d)
    /\ crossed' = (crossed \/ k < Len(frames))
    /\ lastcall' = "stop"
    /\ UNCHANGED <<profiler_cycles_measure, buffer, first_parent, torn, reentered, calls,
                   ms_clock, calib>>

\* the scope of the innermost open block ends with no PROFILER_STOP (a
\* return between the two macros): its local start time is gone, the
\* registry and the cursor are as they were
LeaveBlock ==
    /\ frames # <<>>
    /\ frames' = SubSeq(frames, 1, Len(frames) - 1)
    /\ crossed' = TRUE
    /\ lastcall' = "leave"
    /\ UNCHANGED <<profiler_nodes, profiler_current_parent, profiler_cycles_measure, buffer,
                   tsc, first_parent, pairs, elapsed, torn, reentered, calls, ms_clock, calib>>

NextUnnested ==
    \/ \E s \in Sites, d \in Ticks : PROFILER_START(s, d)
    \/ \E k \in 1 .. PROFILER_NODES_MAX, d \in Ticks : PROFILER_STOP_AT(k, d)
    \/ LeaveBlock
    \/ profiler_reset
    \/ \E d \in Ticks : profiler_initialize(d)
    \/ profiler_dump_console

SpecUnnested == Init /\ [][NextUnnested]_vars

(***************************************************************************)
(* Two threads.  Each runs properly nested blocks of its own call sites    *)
(* (ThreadOf) against the one registry and the one cursor; a macro runs    *)
(* without being preempted, the macros of the two threads interleave in    *)
(* any order.                                                              *)
(***************************************************************************)
Threads == 0 .. 1

\* the position among the open blocks of the innermost one of thread t, 0
\* when it has none open
RECURSIVE InnermostOf(_, _, _)
InnermostOf(t, fs, k) ==
    IF k = 0 THEN 0
    ELSE IF ThreadOf(fs[k].id) = t THEN k
    ELSE InnermostOf(t, fs, k - 1)

\* thread t stops its innermost open block
PROFILER_STOP_BY(t, d) ==
    /\ InnermostOf(t, frames, Len(frames)) > 0
    /\ PROFILER_STOP_AT(InnermostOf(t, frames, Len(frames)), d)

NextThreads ==
    \/ \E s \in Sites, d \in Ticks : PROFILER_START(s, d)
    \/ \E t \in Threads, d \in Ticks : PROFILER_STOP_BY(t, d)

SpecThreads == Init /\ [][NextThreads]_vars

(***************************************************************************)
(* One call site too many.  __COUNTER__ gives the call site after the last *)
(* one that fits the identity PROFILER_NODES_MAX, and the macros index     *)
(* profiler_nodes with it unchecked: the stores to name, parent_id and     *)
(* total_cycles go to, and the load of parent_id comes from, whatever lies *)
(* behind the array (in this source: buffer, defined next).                *)
(***************************************************************************)
BeyondId == PROFILER_NODES_MAX

\* what buffer can hold after a store behind the registry: what it held, or
\* the bytes stored
Overrun(name) == {buffer, [header |-> <<name>>, rows |-> <<>>]}

\* PROFILER_START at the call site with identity BeyondId
PROFILER_START_BEYOND(d) ==
    /\ calls < MaxCalls
    /\ calls' = calls + 1
    /\ buffer' \in Overrun(SiteName(BeyondId))
    /\ profiler_current_parent' = BeyondId
    /\ tsc' = get_cycles(d)
    /\ frames' = Append(Tick(frames, d), [id |-> BeyondId, start |-> tsc', ran |-> 0])
    /\ reentered' = (reentered \/ \E k \in 1 .. Len(frames) : frames[k].id = BeyondId)
    /\ lastcall' = "start"
    /\ UNCHANGED <<profiler_nodes, profiler_cycles_measure, first_parent, pairs, elapsed,
                   torn, aside>>

\* PROFILER_STOP of that block, innermost: the cursor becomes what is read
\* from behind the registry
PROFILER_STOP_BEYOND(d, parent_id) ==
    /\ frames # <<>>
    /\ frames[Len(frames)].id = BeyondId
    /\ buffer' \in Overrun("")
    /\ profiler_current_parent' = parent_id
    /\ tsc' = get_cycles(d)
    /\ frames' = Tick(SubSeq(frames, 1, Len(frames) - 1), d)
    /\ lastcall' = "stop"
    /\ UNCHANGED <<profiler_nodes, profiler_cycles_measure, first_parent, pairs, elapsed,
                   torn, reentered, calls, aside>>

NextCapacity ==
    \/ \E s \in Sites, d \in Ticks : PROFILER_START(s, d)
    \/ \E d \in Ticks : frames # <<>> /\ frames[Len(frames)].id \in Ids /\ PROFILER_STOP(d)
    \/ \E d \in Ticks : PROFILER_START_BEYOND(d)
    \/ \E d \in Ticks, parent_id \in (0 - 1) .. BeyondId : PROFILER_STOP_BEYOND(d, parent_id)
    \/ profiler_reset
    \/ \E d \in Ticks : profiler_initialize(d)
    \/ profiler_dump_console

SpecCapacity == Init /\ [][NextCapacity]_vars

(***************************************************************************)
(* A program of two translation units.  The unit that defines              *)
(* PROFILER_DEFINE holds the registry and the cursor, the other one sees   *)
(* them through the extern declarations; __COUNTER__ is a counter of the   *)
(* preprocessor and starts at 0 in each unit.                              *)
(***************************************************************************)
Units == 0 .. 1

\* the value of __COUNTER__ at the k-th PROFILER_START expanded in unit u
UnitCounter(u, k) == k

\* the NAME written at that call site: the call sites of the two units
\* that come k-th in their unit use different names
UnitSiteName(u, k) == SiteName(k + u)

\* PROFILER_START at the k-th call site of unit u
PROFILER_START_IN(u, k, d) ==
    LET id == UnitCounter(u, k)
        name == UnitSiteName(u, k)
    IN  /\ calls < MaxCalls
        /\ calls' = calls + 1
        /\ profiler_nodes' =
               [profiler_nodes EXCEPT
                   ![id] = [name |-> profiler_strncpy(@.name, name, Len(name) + 1),
                            parent_id |-> profiler_current_parent,
                            total_cycles |-> @.total_cycles]]
        /\ profiler_current_parent' = id
        /\ tsc' = get_cycles(d)
        /\ frames' = Append(Tick(frames, d),
                            [id |-> id, start |-> tsc', ran |-> 0, site |-> <<u, k>>])
        /\ first_parent' = IF first_parent[id] = NotStarted
                           THEN [first_parent EXCEPT ![id] = profiler_nodes'[id].parent_id]
                           ELSE first_parent
        /\ reentered' = (reentered \/ \E j \in 1 .. Len(frames) : frames[j].site = <<u, k>>)
        /\ lastcall' = "start"
        /\ UNCHANGED <<profiler_cycles_measure, buffer, pairs, elapsed, torn, aside>>

NextUnits ==
    \/ \E u \in Units, k \in Sites, d \in Ticks : PROFILER_START_IN(u, k, d)
    \/ \E d \in Ticks : PROFILER_STOP(d)
    \/ profiler_reset
    \/ \E d \in Ticks : profiler_initialize(d)
    \/ profiler_dump_console

SpecUnits == Init /\ [][NextUnits]_vars

(***************************************************************************)
(* _profiler_initialize step by step: the reset and the two reads on       *)
(* entry, the busy wait on the millisecond clock, the read on exit.  The   *)
(* loop reads the clock again before the clock advances again, and the     *)
(* clock advances by less than the window at a time.                       *)
(***************************************************************************)
\* width in bits of unsigned long in the model
MsBits == 8
\* unsigned long subtraction
SubMs(a, b) == ((a - b) + 2 ^ MsBits) % (2 ^ MsBits)

\* the milliseconds by which the clock advances at a time
MsTicks == {1, 60}

\* a loop condition computed in signed arithmetic
WindowOpenSigned(now, milliseconds) == now - milliseconds < PROFILER_MEASURE_MILLISECONDS

\* the loop condition get_milliseconds() - milliseconds < PROFILER_MEASURE_MILLISECONDS
WindowOpen(now, milliseconds) == SubMs(now, milliseconds) < PROFILER_MEASURE_MILLISECONDS

\* profiler_reset(), milliseconds = get_milliseconds(), cycles_start = get_cycles()
\* (one call of _profiler_initialize is followed to its return)
InitializeEnter(d) ==
    /\ calib.pc = "idle"
    /\ lastcall # "initialize"
    /\ calls < MaxCalls
    /\ calls' = calls + 1
    /\ profiler_nodes' = ResetNodes(profiler_nodes)
    /\ first_parent' = [i \in Ids |-> NotStarted]
    /\ pairs' = [i \in Ids |-> 0]
    /\ elapsed' = [i \in Ids |-> 0]
    /\ torn' = (torn \/ frames # <<>>)
    /\ tsc' = get_cycles(d)
    /\ frames' = Tick(frames, d)
    /\ calib' = [pc |-> "wait", milliseconds |-> ms_clock, cycles_start |-> tsc',
                 waited |-> 0, polled |-> FALSE]
    /\ lastcall' = "enter"
    /\ UNCHANGED <<profiler_current_parent, profiler_cycles_measure, buffer, reentered,
                   crossed, ms_clock>>

\* the millisecond clock advances during the wait
ClockTick(t) ==
    /\ calib.pc = "wait"
    /\ calib.polled
    /\ ms_clock' = (ms_clock + t) % (2 ^ MsBits)
    /\ calib' = [calib EXCEPT !.waited = IF @ + t < 2 ^ MsBits THEN @ + t ELSE 2 ^ MsBits,
                              !.polled = FALSE]
    /\ UNCHANGED <<profiler_nodes, profiler_current_parent, profiler_cycles_measure, buffer,
                   tsc, frames, first_parent, pairs, elapsed, torn, reentered, lastcall,
                   calls, crossed>>

\* the loop condition holds: once more round the empty loop
InitializeSpin ==
    /\ calib.pc = "wait"
    /\ ~calib.polled
    /\ WindowOpen(ms_clock, calib.milliseconds)
    /\ calib' = [calib EXCEPT !.polled = TRUE]
    /\ UNCHANGED <<profiler_nodes, profiler_current_parent, profiler_cycles_measure, buffer,
                   tsc, frames, first_parent, pairs, elapsed, torn, reentered, lastcall,
                   calls, crossed, ms_clock>>

\* the loop condition fails: profiler_cycles_measure = get_cycles() - cycles_start
InitializeReturn(d) ==
    /\ calib.pc = "wait"
    /\ ~calib.polled
    /\ ~WindowOpen(ms_clock, calib.milliseconds)
    /\ tsc' = get_cycles(d)
    /\ profiler_cycles_measure' = SubU64(tsc', calib.cycles_start)
    /\ frames' = Tick(frames, d)
    /\ calib' = [calib EXCEPT !.pc = "idle"]
    /\ lastcall' = "initialize"
    /\ UNCHANGED <<profiler_nodes, profiler_current_parent, buffer, first_parent, pairs,
                   elapsed, torn, reentered, calls, crossed, ms_clock>>

\* the program calls _profiler_initialize at its start or later, here: with
\* nothing registered yet or inside its first block, at any time of the
\* clock
InitCalibrate ==
    /\ tsc \in {0, UINT64_MAX}
    /\ \E open \in BOOLEAN :
           /\ profiler_nodes = IF open THEN StartNodes([i \in Ids |-> EmptyNode], 0, 0 - 1)
                                       ELSE [i \in Ids |-> EmptyNode]
           /\ profiler_current_parent = IF open THEN 0 ELSE 0 - 1
           /\ frames = IF open THEN <<[id |-> 0, start |-> tsc, ran |-> 0]>> ELSE <<>>
           /\ first_parent = [i \in Ids |-> IF open /\ i = 0 THEN 0 - 1 ELSE NotStarted]
           /\ lastcall = IF open THEN "start" ELSE "none"
    /\ ms_clock \in {0, 2 ^ (MsBits - 1), 2 ^ MsBits - 1}
    /\ profiler_cycles_measure = 0
    /\ buffer = [header |-> <<>>, rows |-> <<>>]
    /\ pairs = [i \in Ids |-> 0]
    /\ elapsed = [i \in Ids |-> 0]
    /\ torn = FALSE
    /\ reentered = FALSE
    /\ calls = 0
    /\ crossed = FALSE
    /\ calib = NotCalibrating

NextCalibrate ==
    \/ \E d \in Ticks : InitializeEnter(d)
    \/ \E t \in MsTicks : ClockTick(t)
    \/ InitializeSpin
    \/ \E d \in Ticks : InitializeReturn(d)

\* the clock keeps advancing and the loop keeps running
SpecCalibrate ==
    /\ InitCalibrate
    /\ [][NextCalibrate]_vars
    /\ WF_vars(\E t \in MsTicks : ClockTick(t))
    /\ WF_vars(InitializeSpin)
    /\ WF_vars(\E d \in Ticks : InitializeReturn(d))

(***************************************************************************)
(* The seconds column.  A second specification starts where a program is   *)
(* after _profiler_initialize has measured cycles_measure cycles in its    *)
(* window and one top-level block has run for total cycles, both drawn     *)
(* from samples of realistic size, and writes the report.                  *)
(***************************************************************************)
MeasureSamples == {3, 1000, 65536, 2999999, 300000000, 1073741824}
TotalSamples == {1, 7, 1000, 59999, 16777217, 299999999, 300000000,
                 1500000000, 2000000000}

InitSeconds ==
    /\ profiler_cycles_measure \in MeasureSamples
    /\ \E total \in TotalSamples :
           /\ profiler_nodes = [StartNodes(ResetNodes([i \in Ids |-> EmptyNode]), 0, 0 - 1)
                                   EXCEPT ![0].total_cycles = total]
           /\ elapsed = [i \in Ids |-> IF i = 0 THEN total ELSE 0]
    /\ profiler_current_parent = 0 - 1
    /\ buffer = [header |-> <<>>, rows |-> <<>>]
    /\ tsc = 0
    /\ frames = <<>>
    /\ first_parent = [i \in Ids |-> IF i = 0 THEN 0 - 1 ELSE NotStarted]
    /\ pairs = [i \in Ids |-> IF i = 0 THEN 1 ELSE 0]
    /\ torn = FALSE
    /\ reentered = FALSE
    /\ lastcall = "stop"
    /\ calls = 0
    /\ crossed = FALSE
    /\ ms_clock = 0
    /\ calib = NotCalibrating

NextSeconds == profiler_dump_console

SpecSeconds == InitSeconds /\ [][NextSeconds]_vars

(***************************************************************************)
(* The sizes of the name buffers and of the text buffer.  A third          *)
(* specification starts where a program is after it has run up to          *)
(* PROFILER_NODES_MAX blocks, side by side or each inside the one before,  *)
(* whose names have a length drawn from samples up to the longest name the *)
(* name field holds, and writes the report.                                *)
(***************************************************************************)
PROFILER_NAME_MAXLEN == 256

\* PROFILER_BUFFER_SIZE is 16384 bytes for 256 slots: 64 bytes a slot.  The
\* model's buffer has that for each of its slots, and room for the two
\* header lines on top of it.
BufferBytesPerSlot == 64

RECURSIVE LinesLen(_)
LinesLen(lines) == IF lines = <<>> THEN 0 ELSE Len(lines[1]) + LinesLen(Tail(lines))

PROFILER_BUFFER_SIZE == LinesLen(HeaderLines) + BufferBytesPerSlot * PROFILER_NODES_MAX

\* strlen of the text a report is in the buffer
RECURSIVE RowsLen(_)
RowsLen(rows) == IF rows = <<>> THEN 0 ELSE Len(RowText(rows[1])) + RowsLen(Tail(rows))
TextLen(report) == LinesLen(report.header) + RowsLen(report.rows)

\* the lengths of the names: short, about the width of the name column, and
\* at and just below the longest name that fits char name[PROFILER_NAME_MAXLEN]
NameLengths == {1, 40, 60, PROFILER_NAME_MAXLEN - 5, PROFILER_NAME_MAXLEN - 4,
                PROFILER_NAME_MAXLEN - 1}

\* an identifier of n characters
RECURSIVE NameOfLength(_)
NameOfLength(n) ==
    IF n = 0 THEN ""
    ELSE LET half == NameOfLength(n \div 2)
         IN  IF n % 2 = 0 THEN half \o half ELSE half \o half \o "x"

InitNames ==
    /\ \E n \in 1 .. PROFILER_NODES_MAX, nested \in BOOLEAN, len \in NameLengths :
           /\ profiler_nodes =
                  [i \in Ids |->
                      IF i < n
                      THEN [name |-> profiler_strncpy("", NameOfLength(len), len + 1),
                            parent_id |-> IF nested THEN i - 1 ELSE 0 - 1,
                            total_cycles |-> n - i]
                      ELSE EmptyNode]
           /\ first_parent = [i \in Ids |-> IF i < n THEN profiler_nodes[i].parent_id
                                             ELSE NotStarted]
           /\ pairs = [i \in Ids |-> IF i < n THEN 1 ELSE 0]
           /\ elapsed = [i \in Ids |-> profiler_nodes[i].total_cycles]
    /\ profiler_cycles_measure \in {3, 300000000}
    /\ profiler_current_parent = 0 - 1
    /\ buffer = [header |-> <<>>, rows |-> <<>>]
    /\ tsc = 0
    /\ frames = <<>>
    /\ torn = FALSE
    /\ reentered = FALSE
    /\ lastcall = "stop"
    /\ calls = 0
    /\ crossed = FALSE
    /\ ms_clock = 0
    /\ calib = NotCalibrating

\* the rows before the first one whose indented name does not fit
\* char buffer_name[PROFILER_NAME_MAXLEN]
RECURSIVE RowsThatFit(_)
RowsThatFit(rows) ==
    IF rows = <<>> \/ Len(rows[1].name) + 1 > PROFILER_NAME_MAXLEN THEN <<>>
    ELSE <<rows[1]>> \o RowsThatFit(Tail(rows))

\* _profiler_dump_console when a strcat or sprintf of the report may run
\* past the end of its array: either the memory behind the array takes the
\* bytes and the whole report is written, or the run ends at the first
\* strcat that overruns buffer_name
profiler_dump_unchecked ==
    LET report == profiler_get_results(profiler_nodes, profiler_cycles_measure)
        fits == /\ RowsThatFit(report.rows) = report.rows
                /\ TextLen(report) + 1 <= PROFILER_BUFFER_SIZE
    IN  /\ calls < MaxCalls
        /\ calls' = calls + 1
        /\ \/ buffer' = report /\ lastcall' = "dump"
           \/ /\ ~fits
              /\ buffer' = [header |-> report.header, rows |-> RowsThatFit(report.rows)]
              /\ lastcall' = "abort"
        /\ UNCHANGED <<profiler_nodes, profiler_current_parent, profiler_cycles_measure,
                       tsc, frames, first_parent, pairs, elapsed, torn, reentered, aside>>

NextNames == profiler_dump_unchecked

SpecNames == InitNames /\ [][NextNames]_vars

(***************************************************************************)
(* Accumulation.                                                           *)
(***************************************************************************)
\* C1: at any point the total_cycles of each region is the sum, modulo
\* 2^64, of the cycles that elapsed between the counter read of Start and the
\* counter read of Stop over the region's pairs completed since the last
\* reset (repeated and recursive pairs included): a pair adds to the total.
TotalIsSumOfPairs ==
    \A r \in Ids : profiler_nodes[r].total_cycles = elapsed[r]

\* a region is stopped for the second time, while it is still open once
\* more (recursion), after the counter has wrapped
TotalIsSumOfPairsWitness ==
    \E r \in Ids :
        /\ lastcall = "stop"
        /\ pairs[r] = 2
        /\ \E k \in 1 .. Len(frames) : frames[k].id = r /\ frames[k].start > tsc
        /\ profiler_nodes[r].total_cycles > 0

(***************************************************************************)
(* Parent links and the nesting cursor.                                    *)
(***************************************************************************)
\* the innermost open block of a stack of open blocks, -1 for none
Top(fs) == IF fs = <<>> THEN 0 - 1 ELSE fs[Len(fs)].id

ParentIsInnermostOpen ==
    (lastcall = "start" /\ ~torn) =>
        profiler_nodes[Top(frames)].parent_id = Top(SubSeq(frames, 1, Len(frames) - 1))

\* C10: in a properly nested sequence from a reset state, recursion
\* included, the cursor is the top of the stack of open blocks after every
\* call, none when the stack is empty.
CursorIsTopOfStack ==
    ~torn => profiler_current_parent = Top(frames)

(***************************************************************************)
(* The report.                                                             *)
(***************************************************************************)
\* the report _profiler_get_results writes for the registry as it is now
Report == profiler_get_results(profiler_nodes, profiler_cycles_measure)

RowsOf(r, rows) == {k \in 1 .. Len(rows) : rows[k].id = r}

\* C4 (the report has exactly one row for every region with a completed
\* pair since the last reset), in the case that asks least of the code:
\* every block is closed, no block was re-entered while open, no reset was
\* made while a block was open, and every total is above 0 and below the
\* largest uint64_t.
EveryCompletedRegionHasOneRow ==
    (/\ frames = <<>> /\ ~reentered /\ ~torn
     /\ \A r \in Ids : pairs[r] >= 1 =>
            profiler_nodes[r].total_cycles \in 1 .. (UINT64_MAX - 1))
    => \A r \in Ids : pairs[r] >= 1 => Cardinality(RowsOf(r, Report.rows)) = 1

SameParent(a, b) == profiler_nodes[a].parent_id = profiler_nodes[b].parent_id

\* C5: of two rows of sibling regions the one written first has at least
\* as many cycles, and the lower identity when the cycles are equal.
SiblingsHeaviestFirst ==
    LET rows == Report.rows
    IN  \A i, j \in 1 .. Len(rows) :
            (i < j /\ SameParent(rows[i].id, rows[j].id)) =>
                /\ rows[i].cycles >= rows[j].cycles
                /\ rows[i].cycles = rows[j].cycles => rows[i].id < rows[j].id

\* the dump wrote B, registered second, with more cycles, before A, both at
\* the top level
SiblingsHeaviestFirstWitness ==
    /\ lastcall = "dump"
    /\ Len(buffer.rows) = 2
    /\ buffer.rows[1].name = "B" /\ buffer.rows[2].name = "A"
    /\ buffer.rows[1].id > buffer.rows[2].id
    /\ buffer.rows[1].cycles > buffer.rows[2].cycles
    /\ SameParent(buffer.rows[1].id, buffer.rows[2].id)

\* the number of parent links from r to none (more than the number of slots
\* when the links from r never reach none)
RECURSIVE ChainDepth(_, _)
ChainDepth(r, fuel) ==
    IF r = 0 - 1 THEN 0 - 1
    ELSE IF fuel = 0 THEN PROFILER_NODES_MAX
    ELSE 1 + ChainDepth(profiler_nodes[r].parent_id, fuel - 1)

\* a is a proper ancestor of r along the parent links
RECURSIVE IsAncestor(_, _, _)
IsAncestor(a, r, fuel) ==
    /\ fuel > 0
    /\ r # 0 - 1
    /\ \/ profiler_nodes[r].parent_id = a
       \/ IsAncestor(a, profiler_nodes[r].parent_id, fuel - 1)

\* C6: the rows are in depth-first order: the rows of a region's
\* descendants follow its row without a gap, before the row of any later
\* sibling, and a row's level (its indent) is the region's depth in the
\* parent chain.
RowsDepthFirst ==
    LET rows == Report.rows
        Desc(i, k) == IsAncestor(rows[i].id, rows[k].id, PROFILER_NODES_MAX)
    IN  /\ \A i \in 1 .. Len(rows) :
               /\ rows[i].level = ChainDepth(rows[i].id, PROFILER_NODES_MAX)
               /\ rows[i].name = Indent(rows[i].level) \o profiler_nodes[rows[i].id].name
        /\ \A i, k \in 1 .. Len(rows) : Desc(i, k) => i < k
        /\ \A i, j, k \in 1 .. Len(rows) : (i < j /\ j < k /\ Desc(i, k)) => Desc(i, j)

\* the report has a region, its child on the next row one level deeper, and
\* then the region's lighter sibling back at the top level
RowsDepthFirstWitness ==
    LET rows == Report.rows
    IN  /\ Len(rows) = 3
        /\ rows[1].level = 0 /\ rows[2].level = 1 /\ rows[3].level = 0
        /\ profiler_nodes[rows[2].id].parent_id = rows[1].id
        /\ rows[3].cycles < rows[1].cycles

\* C7: right after a reset every slot has zero cycles, no parent and an
\* empty name, and the report is the two header lines with no rows.
ResetClearsAll ==
    lastcall = "reset" =>
        /\ \A i \in Ids : /\ profiler_nodes[i].total_cycles = 0
                          /\ profiler_nodes[i].parent_id = 0 - 1
                          /\ profiler_nodes[i].name = ""
        /\ Len(Report.header) = 2
        /\ Report.rows = <<>>

\* the reset follows a dump that wrote a row for the last slot: the slot had
\* cycles and a name, and has none now
ResetClearsAllWitness ==
    /\ lastcall = "reset"
    /\ buffer.rows # <<>>
    /\ buffer.rows[1].id = PROFILER_NODES_MAX - 1
    /\ buffer.rows[1].cycles > 0

\* C8: all blocks with the same name are one region: no two slots of the
\* registry hold the same name, so the name has one row.
SameNameOneRegion ==
    \A i, j \in Ids :
        (i # j /\ profiler_nodes[i].name # "") => profiler_nodes[i].name # profiler_nodes[j].name

(***************************************************************************)
(* The seconds column against exact arithmetic.                            *)
(***************************************************************************)
\* 10 * r = d * m + r' with r' < m, for r < m <= 2^30, by ten additions
RECURSIVE TimesTen(_, _, _, _, _)
TimesTen(r, m, n, acc, d) ==
    IF n = 0 THEN [d |-> d, r |-> acc]
    ELSE IF acc >= m - r THEN TimesTen(r, m, n - 1, acc - (m - r), d + 1)
    ELSE TimesTen(r, m, n - 1, acc + r, d)

\* n more decimal digits of the quotient of r by m
RECURSIVE DecimalDigits(_, _, _, _)
DecimalDigits(r, m, n, q) ==
    IF n = 0 THEN q
    ELSE LET t == TimesTen(r, m, 10, 0, 0)
         IN  DecimalDigits(t.r, m, n - 1, 10 * q + t.d)

\* the whole millionths of a second in total / (measure / (1/10 s)), that
\* is floor(total * 10^5 / measure), exactly
ExactMicros(total, measure) ==
    DecimalDigits(total % measure, measure, 5, total \div measure)

\* a number of millionths as %f writes it
MicrosText(x) == ToString(x \div 1000000) \o "." \o PadLeft0(ToString(x % 1000000), 6)

\* C9: right after the report is written, the seconds of a row are its
\* total_cycles divided by (calibration cycles / window seconds): for
\* quotients below 2000 seconds the text is the exact quotient in
\* millionths, to within one millionth and the precision of float (one part
\* in 2,000,000); and with 300,000,000 calibration cycles a region of
\* 1,500,000,000 cycles is written 0.500000.
SecondsIsCyclesOverRate ==
    lastcall = "dump" => \A k \in 1 .. Len(buffer.rows) :
        LET row == buffer.rows[k]
            measure == profiler_cycles_measure
        IN  /\ (measure = 300000000 /\ row.cycles = 1500000000) => row.seconds = "0.500000"
            /\ (measure \in 1 .. 2 ^ 30 /\ row.cycles \div measure < 20000) =>
                   LET e == ExactMicros(row.cycles, measure)
                       tol == 1 + (e \div 2000000)
                       lo == IF e > tol THEN e - tol ELSE 0
                   IN  \E x \in lo .. (e + 1 + tol) : row.seconds = MicrosText(x)

\* the report of the scenario has been written: 300,000,000 calibration
\* cycles, one row of 1,500,000,000 cycles and 0.500000 seconds
SecondsIsCyclesOverRateWitness ==
    /\ lastcall = "dump"
    /\ profiler_cycles_measure = 300000000
    /\ Len(buffer.rows) = 1
    /\ buffer.rows[1].cycles = 1500000000
    /\ buffer.rows[1].seconds = "0.500000"

(***************************************************************************)
(* Ties, and the cursor after a reset.                                     *)
(***************************************************************************)
\* C11: two top-level regions with the same non-zero total_cycles both have
\* a row, the lower identity first.  Stated for the runs that ask least of
\* the code: no block re-entered while open, no reset while a block was
\* open, totals below the largest uint64_t.
TiedSiblingsBothRendered ==
    (~reentered /\ ~torn) =>
        \A a, b \in Ids :
            (/\ a < b
             /\ profiler_nodes[a].parent_id = 0 - 1
             /\ profiler_nodes[b].parent_id = 0 - 1
             /\ profiler_nodes[a].total_cycles = profiler_nodes[b].total_cycles
             /\ profiler_nodes[a].total_cycles \in 1 .. (UINT64_MAX - 1))
            => \E i, j \in 1 .. Len(Report.rows) :
                   i < j /\ Report.rows[i].id = a /\ Report.rows[j].id = b

\* C20: right after _profiler_reset or _profiler_initialize the nesting
\* cursor is none.
CursorNoneAfterReset ==
    lastcall \in {"reset", "initialize"} => profiler_current_parent = 0 - 1

(***************************************************************************)
(* The cursor after calls out of order.                                    *)
(***************************************************************************)
\* every open block has a region as its recorded parent
AllOpenHaveParent ==
    \A k \in 1 .. Len(frames) : profiler_nodes[frames[k].id].parent_id # 0 - 1

\* the pairs completed since the last reset, over the slots below n
RECURSIVE PairsBelow(_)
PairsBelow(n) == IF n = 0 THEN 0 ELSE pairs[n - 1] + PairsBelow(n - 1)

StartBeyondCapacityWritesNothing ==
    /\ profiler_current_parent \in {0 - 1} \cup Ids
    /\ \A i \in Ids : profiler_nodes[i].parent_id \in {0 - 1} \cup Ids

(***************************************************************************)
(* The fixed-size arrays.                                                  *)
(***************************************************************************)
\* C14: the name stored in a slot, and the indented name built for a row
\* of the report just written, take at most PROFILER_NAME_MAXLEN bytes with
\* their terminator.
NamesFitTheirArrays ==
    /\ \A i \in Ids : Len(profiler_nodes[i].name) + 1 <= PROFILER_NAME_MAXLEN
    /\ lastcall = "dump" =>
           \A k \in 1 .. Len(buffer.rows) : Len(buffer.rows[k].name) + 1 <= PROFILER_NAME_MAXLEN

\* C18: the text of the report just written, with its terminator, takes at
\* most PROFILER_BUFFER_SIZE bytes.  Stated for the reports with a row for
\* every slot, all top-level and all of one length, where the bytes a row
\* may take are the same for every number of slots: BufferBytesPerSlot.
ReportFitsBuffer ==
    (/\ lastcall = "dump"
     /\ Len(buffer.rows) = PROFILER_NODES_MAX
     /\ \A k \in 1 .. Len(buffer.rows) :
            /\ buffer.rows[k].level = 0
            /\ Len(RowText(buffer.rows[k])) = Len(RowText(buffer.rows[1])))
    => TextLen(buffer) + 1 <= PROFILER_BUFFER_SIZE

(***************************************************************************)
(* Identities across translation units.                                    *)
(***************************************************************************)
\* C15: two different call sites never write to the same slot: the blocks
\* of two different call sites that are open together have different
\* identities, and a block running with no block re-entered finds in its
\* slot the name its own call site wrote.
CallSitesHaveOwnSlots ==
    /\ \A j, k \in 1 .. Len(frames) :
           frames[j].site # frames[k].site => frames[j].id # frames[k].id
    /\ ~reentered =>
           \A j \in 1 .. Len(frames) :
               profiler_nodes[frames[j].id].name \in
                   {"", UnitSiteName(frames[j].site[1], frames[j].site[2])}

(***************************************************************************)
(* Calibration.                                                            *)
(***************************************************************************)
\* C16: a _profiler_initialize that has entered its wait returns; when it
\* has returned, the millisecond clock has advanced by at least
\* PROFILER_MEASURE_MILLISECONDS since it was read on entry,
\* profiler_cycles_measure is the cycle counter read on exit minus the one
\* read on entry modulo 2^64, and every slot is empty.
InitializeMeasuresWindow ==
    /\ [](lastcall = "initialize" =>
             /\ calib.waited >= PROFILER_MEASURE_MILLISECONDS
             /\ profiler_cycles_measure = SubU64(tsc, calib.cycles_start)
             /\ \A i \in Ids : profiler_nodes[i] = EmptyNode)
    /\ (calib.pc = "wait") ~> (calib.pc = "idle")

\* _profiler_initialize was called inside an open block and has returned;
\* both the millisecond clock and the cycle counter wrapped during the wait
InitializeMeasuresWindowWitness ==
    /\ lastcall = "initialize"
    /\ frames # <<>>
    /\ ms_clock < calib.milliseconds
    /\ tsc < calib.cycles_start
    /\ profiler_cycles_measure > 0

(***************************************************************************)
(* Two threads on the one cursor.                                          *)
(***************************************************************************)
\* C17: the cursor is shared by the threads: a PROFILER_START of either
\* thread records as parent the cursor as the last macro of either thread
\* left it, and makes its own region the cursor for both.
ThreadsShareCursor ==
    [][lastcall' = "start" =>
          /\ profiler_nodes'[profiler_current_parent'].parent_id = profiler_current_parent
          /\ profiler_current_parent' = frames'[Len(frames')].id]_vars

\* each thread ran one block, the two overlapped: the region of one thread
\* has the region of the other as its recorded parent, and the cursor is
\* not none although every block has been stopped
ThreadsShareCursorWitness ==
    /\ ~reentered
    /\ frames = <<>>
    /\ profiler_current_parent # 0 - 1
    /\ \E r \in Ids :
           /\ pairs[r] = 1
           /\ profiler_nodes[r].parent_id # 0 - 1
           /\ ThreadOf(profiler_nodes[r].parent_id) # ThreadOf(r)
           /\ pairs[profiler_nodes[r].parent_id] = 1

(***************************************************************************)
(* The report of any registry.                                             *)
(***************************************************************************)
\* C19: for the registry of every state, the calls of
\* profiler_get_results_sorted nest no deeper than the registry has slots
\* (so the report is written in finitely many steps), and no region has
\* two rows.
RenderEndsEachRegionOnce ==
    /\ SortedDepth(profiler_nodes, 0 - 1, 0, 0, UINT64_MAX, PROFILER_NODES_MAX + 1)
           <= PROFILER_NODES_MAX
    /\ \A i, j \in 1 .. Len(Report.rows) : Report.rows[i].id = Report.rows[j].id => i = j

\* a region that is its own parent, with cycles, beside a region that has
\* a row, after calls out of order
RenderEndsEachRegionOnceWitness ==
    /\ \E f \in Ids : profiler_nodes[f].parent_id = f /\ profiler_nodes[f].total_cycles > 0
    /\ crossed
    /\ Len(Report.rows) >= 1

====
